---------------------------- MODULE Spec2Model ----------------------------
(***************************************************************************)
(* Value-and-type binding core of the GraphQL runtime                      *)
(* (src/language/kinds/kinds.go, package graphql part, lines 40-474):      *)
(* isNullish, typeFromAST, isValidInputValue, coerceValue, valueFromAST,   *)
(* getVariableValue, getVariableValues and getArgumentValues.              *)
(*                                                                         *)
(* Runtime values (Go interface{}) are tagged records, schema types and    *)
(* AST nodes are tagged records, messages are strings built exactly as the *)
(* fmt.Sprintf calls of the source build them.                             *)
(***************************************************************************)
EXTENDS Integers, Sequences, FiniteSets, TLC

(***************************************************************************)
(* Bounds of the model.                                                    *)
(***************************************************************************)
\* longest list of variable definitions handed to getVariableValues
MaxDefs == 2
\* longest runtime sequence handed to the validator
MaxListLen == 2

(***************************************************************************)
(* Runtime values: Go's interface{} as a tagged union.                     *)
(***************************************************************************)
Nil == [k |-> "nil"]
NaN == [k |-> "float64", nan |-> TRUE]
\* a float64 that is a number (1.5)
Float == [k |-> "float64", nan |-> FALSE]
VStr(s) == [k |-> "string", s |-> s]
VInt(n) == [k |-> "int", n |-> n]
VBool(b) == [k |-> "bool", b |-> b]
VSlice(xs) == [k |-> "slice", items |-> xs]
VMap(m) == [k |-> "map", m |-> m]
\* a pointer to elem; reflect's Elem() of a nil pointer is the invalid Value
Invalid == [k |-> "invalid"]
VPtr(elem) == [k |-> "ptr", elem |-> elem]

\* Go map lookup m[key]: the zero value (nil) when the key is missing.
MapGet(m, key) == IF key \in DOMAIN m THEN m[key] ELSE Nil

\* Go map store m[key] = val.
MapPut(m, key, val) == [n \in DOMAIN m \cup {key} |-> IF n = key THEN val ELSE m[n]]

EmptyMap == [n \in {} |-> Nil]

(***************************************************************************)
(* isNullish: nil, or a float NaN, looked at through one pointer.           *)
(* math.IsNaN(float64(int)) is false for every int, so the reflect.Int     *)
(* branch never reports nullish; a Value of Kind String is always valid.   *)
(***************************************************************************)
\* math.IsNaN(float64(n)) of an int n: the conversion gives a number
IntIsNaN(n) == FALSE

\* mutant: the zero values count as nullish
isNullish_ZeroValues(src) ==
    IF src = Nil THEN TRUE
    ELSE LET value == IF src.k = "ptr" THEN src.elem ELSE src
         IN CASE value.k = "string" -> value.s = ""
              [] value.k = "int" -> value.n = 0
              [] value.k = "float64" -> value.nan
              [] OTHER -> FALSE

isNullish(src) ==
    IF src = Nil THEN TRUE
    ELSE LET value == IF src.k = "ptr" THEN src.elem ELSE src
         IN CASE value.k = "string" -> FALSE
              [] value.k = "int" -> IntIsNaN(value.n)
              [] value.k = "float64" -> value.nan
              [] OTHER -> FALSE

(***************************************************************************)
(* Rendering of runtime values: fmt's %v verb and json.Marshal.            *)
(* sort.Strings orders the names of the model by their place in NameOrder, *)
(* which lists them lexicographically.                                     *)
(***************************************************************************)
NameOrder == <<"a", "b", "c">>

Rank(name) == CHOOSE i \in 1..Len(NameOrder) : NameOrder[i] = name

\* Go's range over a map yields the keys in an unspecified order.
RECURSIVE RangeKeys(_)
RangeKeys(S) ==
    IF S = {} THEN <<>>
    ELSE LET n == CHOOSE n \in S : \A o \in S : Rank(o) <= Rank(n)
         IN <<n>> \o RangeKeys(S \ {n})

\* the orders in which a range over a map may yield its keys: every
\* arrangement of the names
RangeOrders ==
    {order \in [1..Len(NameOrder) -> {NameOrder[i] : i \in 1..Len(NameOrder)}] :
        \A i, j \in 1..Len(NameOrder) : order[i] = order[j] => i = j}

\* the keys of S as a range yields them under one of these orders
RangeKeysIn(order, S) == SelectSeq(order, LAMBDA n : n \in S)

\* mutant: the names stay in the order the range yielded them
SortStrings_Unsorted(names) == names

\* sort.Strings: insertion of each name at its lexicographic place.
RECURSIVE SortStrings(_)
SortStrings(names) ==
    IF names = <<>> THEN <<>>
    ELSE LET rest == SortStrings(Tail(names))
             n == Head(names)
         IN SelectSeq(rest, LAMBDA o : Rank(o) < Rank(n))
            \o <<n>> \o
            SelectSeq(rest, LAMBDA o : ~(Rank(o) < Rank(n)))

\* strings.Join(elems, sep)
RECURSIVE Join(_, _)
Join(elems, sep) ==
    IF elems = <<>> THEN ""
    ELSE IF Len(elems) = 1 THEN elems[1]
    ELSE elems[1] \o sep \o Join(Tail(elems), sep)

\* fmt.Sprintf("%v", value)
RECURSIVE FmtV(_)
FmtV(value) ==
    CASE value.k \in {"nil", "invalid"} -> "<nil>"
      [] value.k = "float64" -> IF value.nan THEN "NaN" ELSE "1.5"
      [] value.k = "string" -> value.s
      [] value.k = "int" -> ToString(value.n)
      [] value.k = "bool" -> IF value.b THEN "true" ELSE "false"
      [] value.k = "slice" ->
            "[" \o Join([i \in 1..Len(value.items) |-> FmtV(value.items[i])], " ") \o "]"
      [] value.k = "map" ->
            LET keys == SortStrings(RangeKeys(DOMAIN value.m))
            IN "map[" \o Join([i \in 1..Len(keys) |->
                                keys[i] \o ":" \o FmtV(value.m[keys[i]])], " ") \o "]"
      [] value.k = "ptr" -> "&" \o FmtV(value.elem)

\* json.Marshal fails on a NaN anywhere in the value (UnsupportedValueError).
RECURSIVE MarshalFails(_)
MarshalFails(value) ==
    CASE value.k = "float64" -> value.nan
      [] value.k = "ptr" -> MarshalFails(value.elem)
      [] value.k = "slice" -> \E i \in 1..Len(value.items) : MarshalFails(value.items[i])
      [] value.k = "map" -> \E n \in DOMAIN value.m : MarshalFails(value.m[n])
      [] OTHER -> FALSE

\* the bytes of json.Marshal(value) when it succeeds (map keys sorted)
RECURSIVE Marshal(_)
Marshal(value) ==
    CASE value.k \in {"nil", "invalid"} -> "null"
      [] value.k = "float64" -> IF value.nan THEN "" ELSE "1.5"
      [] value.k = "ptr" -> Marshal(value.elem)
      [] value.k = "string" -> "\"" \o value.s \o "\""
      [] value.k = "int" -> ToString(value.n)
      [] value.k = "bool" -> IF value.b THEN "true" ELSE "false"
      [] value.k = "slice" ->
            "[" \o Join([i \in 1..Len(value.items) |-> Marshal(value.items[i])], ",") \o "]"
      [] value.k = "map" ->
            LET keys == SortStrings(RangeKeys(DOMAIN value.m))
            IN "{" \o Join([i \in 1..Len(keys) |->
                              "\"" \o keys[i] \o "\":" \o Marshal(value.m[keys[i]])], ",") \o "}"

(***************************************************************************)
(* Schema types.  A type is a tagged record; NoType is Go's nil Type.      *)
(***************************************************************************)
NoType == [kind |-> "nil"]
Scalar(name) == [kind |-> "Scalar", name |-> name]
Enum(name) == [kind |-> "Enum", name |-> name]
InputObject(name) == [kind |-> "InputObject", name |-> name]
Object(name) == [kind |-> "Object", name |-> name]
NewList(ofType) == [kind |-> "List", OfType |-> ofType]
NewNonNull(ofType) == [kind |-> "NonNull", OfType |-> ofType]

\* The schema of the model: scalars String and Boolean, an enum, the input
\* object  input Complex { a: String = "foo", b: [String] }  and an object type.
SchemaTypes ==
    {Scalar("String"), Scalar("Boolean"), Enum("Color"),
     InputObject("Complex"), Object("Obj")}

\* schema.Type(name): the registered type of that name, or nil.
SchemaType(name) ==
    IF \E t \in SchemaTypes : t.name = name
    THEN CHOOSE t \in SchemaTypes : t.name = name
    ELSE NoType

\* ttype.Fields() of an input object: name -> {Type, DefaultValue}
Fields(ttype) ==
    IF ttype.name = "Complex"
    THEN [n \in {"a", "b"} |->
            IF n = "a"
            THEN [Type |-> Scalar("String"), DefaultValue |-> VStr("foo")]
            ELSE [Type |-> NewList(Scalar("String")), DefaultValue |-> Nil]]
    ELSE [n \in {} |-> [Type |-> NoType, DefaultValue |-> Nil]]

\* ttype.Name(): the name of a named type, empty for a wrapper.
TypeName(ttype) ==
    IF ttype.kind \in {"Scalar", "Enum", "InputObject", "Object"} THEN ttype.name ELSE ""

\* GetNamed: the innermost type under the List and NonNull wrappers.
RECURSIVE GetNamed(_)
GetNamed(ttype) ==
    IF ttype.kind \in {"List", "NonNull"} THEN GetNamed(ttype.OfType) ELSE ttype

\* IsInputType: the innermost type is a scalar, an enum or an input object.
IsInputType(ttype) == GetNamed(ttype).kind \in {"Scalar", "Enum", "InputObject"}

\* Scalar.ParseValue / Enum.ParseValue: the coerced value, or nil.
ParseValue(ttype, value) ==
    CASE ttype.name = "String" -> IF value.k = "string" THEN value ELSE Nil
      [] ttype.name = "Boolean" -> IF value.k = "bool" THEN value ELSE Nil
      [] ttype.name = "Color" ->
            IF value = VStr("RED") THEN VInt(0)
            ELSE IF value = VStr("GREEN") THEN VInt(1) ELSE Nil
      [] OTHER -> Nil

(***************************************************************************)
(* AST nodes: type references, value literals.  NoNode is a nil node.      *)
(***************************************************************************)
NoNode == [Kind |-> "nil"]
\* an ast.Name node; a nil *ast.Name is NoNode
NameNode(value) == [Kind |-> "Name", Value |-> value]
Named(name) == [Kind |-> "Named", Name |-> NameNode(name)]
ListType(inner) == [Kind |-> "List", Type |-> inner]
NonNullType(inner) == [Kind |-> "NonNull", Type |-> inner]
\* a node that implements ast.Type but is none of Named, List, NonNull
OtherType == [Kind |-> "Name"]

Variable(name) == [Kind |-> "Variable", Name |-> NameNode(name)]
StringValue(s) == [Kind |-> "StringValue", Value |-> s]
IntValue(n) == [Kind |-> "IntValue", Value |-> n]
BooleanValue(b) == [Kind |-> "BooleanValue", Value |-> b]
EnumValue(name) == [Kind |-> "EnumValue", Value |-> name]
ListValue(values) == [Kind |-> "ListValue", Values |-> values]
ObjectField(name, value) ==
    [Kind |-> "ObjectField", Name |-> NameNode(name), Value |-> value]
ObjectValue(fields) == [Kind |-> "ObjectValue", Fields |-> fields]

\* Scalar.ParseLiteral / Enum.ParseLiteral: the coerced value, or nil.
ParseLiteral(ttype, valueAST) ==
    CASE ttype.name = "String" ->
            IF valueAST.Kind = "StringValue" THEN VStr(valueAST.Value) ELSE Nil
      [] ttype.name = "Boolean" ->
            IF valueAST.Kind = "BooleanValue" THEN VBool(valueAST.Value) ELSE Nil
      [] ttype.name = "Color" ->
            IF valueAST = EnumValue("RED") THEN VInt(0)
            ELSE IF valueAST = EnumValue("GREEN") THEN VInt(1) ELSE Nil
      [] OTHER -> Nil

\* printer.Print of a type reference: Name, [inner], inner!
RECURSIVE PrintType(_)
PrintType(typeAST) ==
    CASE typeAST.Kind = "Named" ->
            IF typeAST.Name # NoNode THEN typeAST.Name.Value ELSE ""
      [] typeAST.Kind = "List" -> "[" \o PrintType(typeAST.Type) \o "]"
      [] typeAST.Kind = "NonNull" -> PrintType(typeAST.Type) \o "!"
      [] OTHER -> ""

(***************************************************************************)
(* Errors: Go's error value, nil or a message.                             *)
(***************************************************************************)
NoError == [isError |-> FALSE]
NewError(message) == [isError |-> TRUE, message |-> message]

\* mutant: no error whatever the condition
invariant_Never(condition, message) == NoError

\* invariant(condition, message): the formatted error unless the condition holds
invariant(condition, message) == IF ~condition THEN NewError(message) ELSE NoError

(***************************************************************************)
(* typeFromAST: the schema type of a type reference, wrappers preserved.   *)
(* The result is the pair (Type, error) of the source.                     *)
(***************************************************************************)
RECURSIVE typeFromAST(_)
typeFromAST(inputTypeAST) ==
    CASE inputTypeAST.Kind = "List" ->
            LET inner == typeFromAST(inputTypeAST.Type)
            IN IF inner.err # NoError THEN [ttype |-> NoType, err |-> inner.err]
               ELSE [ttype |-> NewList(inner.ttype), err |-> NoError]
      [] inputTypeAST.Kind = "NonNull" ->
            LET inner == typeFromAST(inputTypeAST.Type)
            IN IF inner.err # NoError THEN [ttype |-> NoType, err |-> inner.err]
               ELSE [ttype |-> NewNonNull(inner.ttype), err |-> NoError]
      [] inputTypeAST.Kind = "Named" ->
            LET nameValue == IF inputTypeAST.Name # NoNode
                             THEN inputTypeAST.Name.Value ELSE ""
            IN [ttype |-> SchemaType(nameValue), err |-> NoError]
      [] OTHER ->
            [ttype |-> NoType,
             err |-> invariant(inputTypeAST.Kind = "Named", "Must be a named type.")]

(***************************************************************************)
(* isValidInputValue: (ok, messages) for a runtime value against a type.   *)
(***************************************************************************)
\* mutant: the name of the inner type is never asked for
NonNullMessage_NeverNamed(ofType) == "Expected non-null value, found null."

\* the message of a nullish value against NonNull(ofType)
NonNullMessage(ofType) ==
    IF TypeName(ofType) # ""
    THEN "Expected \"" \o TypeName(ofType) \o "!\", found null."
    ELSE "Expected non-null value, found null."

\* a message of element i of a sequence; idx is the place of the message among
\* the messages of that element (both counted from 1, Go's i+1 and idx+1)
ElementMessage(i, idx, message) ==
    "In element #" \o ToString(idx) \o ": " \o message

UnknownFieldMessage(fieldName) == "In field \"" \o fieldName \o "\": Unknown field."

FieldMessage(fieldName, message) == "In field \"" \o fieldName \o "\": " \o message

ExpectedTypeMessage(ttype, value) ==
    "Expected type \"" \o TypeName(ttype) \o "\", found \"" \o FmtV(value) \o "\"."

\* mutant: the defined fields are reported before the unknown ones
ObjectMessageOrder_DefinedFirst(unknownMessages, fieldMessages) ==
    fieldMessages \o unknownMessages

\* the order in which the messages of an input object are emitted: the
\* unknown provided names (sorted), then the defined names (sorted)
ObjectMessageOrder(unknownMessages, fieldMessages) == unknownMessages \o fieldMessages

\* mutant: a rejected scalar is reported without a message
LeafResult_NoMessage(ttype, value) ==
    IF isNullish(ParseValue(ttype, value))
    THEN [ok |-> FALSE, messages |-> <<>>]
    ELSE [ok |-> TRUE, messages |-> <<>>]

\* the Scalar and Enum cases: ParseValue decides
LeafResult(ttype, value) ==
    IF isNullish(ParseValue(ttype, value))
    THEN [ok |-> FALSE, messages |-> <<ExpectedTypeMessage(ttype, value)>>]
    ELSE [ok |-> TRUE, messages |-> <<>>]

\* isValidInputValue when the ranges over the field map and over the input
\* map yield their keys in the given order
RECURSIVE isValidInputValueIn(_, _, _)
isValidInputValueIn(order, value, ttype) ==
    IF ttype.kind = "NonNull"
    THEN IF isNullish(value)
         THEN [ok |-> FALSE, messages |-> <<NonNullMessage(ttype.OfType)>>]
         ELSE isValidInputValueIn(order, value, ttype.OfType)
    ELSE IF isNullish(value) THEN [ok |-> TRUE, messages |-> <<>>]
    ELSE CASE ttype.kind = "List" ->
            IF (IF value.k = "ptr" THEN value.elem ELSE value).k = "slice"
            THEN LET valType == IF value.k = "ptr" THEN value.elem ELSE value
                     RECURSIVE elements(_, _)
                     elements(i, messagesReduce) ==
                        IF i > Len(valType.items) THEN messagesReduce
                        ELSE LET messages ==
                                    isValidInputValueIn(order, valType.items[i], ttype.OfType).messages
                             IN elements(i + 1,
                                    messagesReduce \o
                                    [idx \in 1..Len(messages) |->
                                        ElementMessage(i, idx, messages[idx])])
                     messagesReduce == elements(1, <<>>)
                 IN [ok |-> Len(messagesReduce) = 0, messages |-> messagesReduce]
            ELSE isValidInputValueIn(order, value, ttype.OfType)
      [] ttype.kind = "InputObject" ->
            IF value.k # "map"
            THEN [ok |-> FALSE,
                  messages |-> <<"Expected \"" \o TypeName(ttype)
                                 \o "\", found not an object.">>]
            ELSE LET valueMap == value.m
                     fields == Fields(ttype)
                     fieldNames == SortStrings(RangeKeysIn(order, DOMAIN fields))
                     valueMapFieldNames == SortStrings(RangeKeysIn(order, DOMAIN valueMap))
                     unknown == SelectSeq(valueMapFieldNames,
                                          LAMBDA n : n \notin DOMAIN fields)
                     unknownMessages ==
                        [j \in 1..Len(unknown) |-> UnknownFieldMessage(unknown[j])]
                     RECURSIVE defined(_, _)
                     defined(j, acc) ==
                        IF j > Len(fieldNames) THEN acc
                        ELSE LET fieldName == fieldNames[j]
                                 messages ==
                                    isValidInputValueIn(order,
                                        MapGet(valueMap, fieldName),
                                        fields[fieldName].Type).messages
                             IN defined(j + 1,
                                    acc \o [m \in 1..Len(messages) |->
                                              FieldMessage(fieldName, messages[m])])
                     messagesReduce ==
                        ObjectMessageOrder(unknownMessages, defined(1, <<>>))
                 IN [ok |-> Len(messagesReduce) = 0, messages |-> messagesReduce]
      [] ttype.kind \in {"Scalar", "Enum"} ->
            LeafResult(ttype, value)
      [] OTHER -> [ok |-> TRUE, messages |-> <<>>]

\* isValidInputValue under the order RangeKeys yields
isValidInputValue(value, ttype) ==
    isValidInputValueIn(RangeKeys({NameOrder[i] : i \in 1..Len(NameOrder)}), value, ttype)

(***************************************************************************)
(* coerceValue: the runtime value coerced to the type, nil when absent.    *)
(***************************************************************************)
\* mutant: the single value is returned as it is
WrapSingle_Bare(val) == val

\* the one-element sequence around a value that is not a sequence
WrapSingle(val) == VSlice(<<val>>)

RECURSIVE coerceValue(_, _)

\* mutant: values starts as the elements given and the coerced ones follow
CoerceElements_AppendsToInput(itemType, items) ==
    items \o [i \in 1..Len(items) |-> coerceValue(itemType, items[i])]

\* values of the List case: every element coerced, in the order given
CoerceElements(itemType, items) ==
    [i \in 1..Len(items) |-> coerceValue(itemType, items[i])]

\* mutant: what ParseValue accepted is not returned
CoerceLeaf_DropsParsed(ttype, value) == Nil

\* the Scalar and Enum cases: what ParseValue makes of the value, nil when
\* that is nullish
CoerceLeaf(ttype, value) ==
    LET parsed == ParseValue(ttype, value)
    IN IF ~isNullish(parsed) THEN parsed ELSE Nil

\* mutant: the default of the field is never looked at
FieldValue_NoDefault(coerced, defaultValue) == coerced

\* fieldValue of one field: the coerced input, or the default of the field
\* when that is nullish
FieldValue(coerced, defaultValue) ==
    IF isNullish(coerced) THEN defaultValue ELSE coerced

coerceValue(ttype, value) ==
    IF ttype.kind = "NonNull" THEN coerceValue(ttype.OfType, value)
    ELSE IF isNullish(value) THEN Nil
    ELSE CASE ttype.kind = "List" ->
            IF value.k = "slice"
            THEN VSlice(CoerceElements(ttype.OfType, value.items))
            ELSE WrapSingle(coerceValue(ttype.OfType, value))
      [] ttype.kind = "InputObject" ->
            LET valueMap == IF value.k = "map" THEN value.m ELSE EmptyMap
                fields == Fields(ttype)
                fieldValue(fieldName) ==
                    FieldValue(coerceValue(fields[fieldName].Type,
                                           MapGet(valueMap, fieldName)),
                               fields[fieldName].DefaultValue)
            IN VMap([fieldName \in {n \in DOMAIN fields : ~isNullish(fieldValue(n))}
                        |-> fieldValue(fieldName)])
      [] ttype.kind \in {"Scalar", "Enum"} -> CoerceLeaf(ttype, value)
      [] OTHER -> Nil

(***************************************************************************)
(* valueFromAST: the runtime value of a literal, guided by the type.       *)
(* variables is a record (present, m): a nil map is present = FALSE.       *)
(***************************************************************************)
NoVariables == [present |-> FALSE, m |-> EmptyMap]
Variables(m) == [present |-> TRUE, m |-> m]

\* name -> the last node of that name in a list of nodes that carry a Name;
\* nil nodes and nodes without a name are skipped
LastByName(nodes) ==
    LET named == {i \in 1..Len(nodes) :
                    nodes[i] # NoNode /\ nodes[i].Name # NoNode}
    IN [n \in {nodes[i].Name.Value : i \in named} |->
            nodes[CHOOSE i \in named :
                    /\ nodes[i].Name.Value = n
                    /\ \A j \in named : nodes[j].Name.Value = n => j <= i]]

\* mutant: the first field of a name is kept, later ones of that name dropped
FieldASTs_FirstWins(ov) ==
    LET named == {i \in 1..Len(ov.Fields) :
                    ov.Fields[i] # NoNode /\ ov.Fields[i].Name # NoNode}
    IN [n \in {ov.Fields[i].Name.Value : i \in named} |->
            ov.Fields[CHOOSE i \in named :
                        /\ ov.Fields[i].Name.Value = n
                        /\ \A j \in named : ov.Fields[j].Name.Value = n => i <= j]]

\* fieldASTs of an ObjectValue
FieldASTs(ov) == LastByName(ov.Fields)

RECURSIVE valueFromAST(_, _, _)

\* mutant: an item that evaluates to nil is not appended
LiteralElements_DropsNil(itemASTs, itemType, variables) ==
    LET all == [i \in 1..Len(itemASTs) |-> valueFromAST(itemASTs[i], itemType, variables)]
    IN SelectSeq(all, LAMBDA v : ~isNullish(v))

\* values of the List case: every item of the ListValue evaluated, in order
LiteralElements(itemASTs, itemType, variables) ==
    [i \in 1..Len(itemASTs) |-> valueFromAST(itemASTs[i], itemType, variables)]

\* mutant: the type is looked at first, so that a Variable node is unwrapped
\* and wrapped like a literal
valueFromAST_TypeFirst(valueAST, ttype, variables) ==
    IF valueAST = NoNode THEN Nil
    ELSE CASE ttype.kind = "NonNull" -> valueFromAST(valueAST, ttype.OfType, variables)
      [] ttype.kind = "List" ->
            IF valueAST.Kind = "ListValue"
            THEN VSlice(LiteralElements(valueAST.Values, ttype.OfType, variables))
            ELSE WrapSingle(valueFromAST(valueAST, ttype.OfType, variables))
      [] OTHER ->
            IF valueAST.Kind = "Variable"
            THEN IF valueAST.Name = NoNode \/ ~variables.present THEN Nil
                 ELSE MapGet(variables.m, valueAST.Name.Value)
            ELSE CASE ttype.kind = "InputObject" ->
                    IF valueAST.Kind # "ObjectValue" THEN Nil
                    ELSE LET fieldASTs == FieldASTs(valueAST)
                             fields == Fields(ttype)
                             fieldValue(name) ==
                                IF name \in DOMAIN fieldASTs
                                THEN valueFromAST(fieldASTs[name].Value,
                                                  fields[name].Type, variables)
                                ELSE fields[name].DefaultValue
                         IN VMap([name \in {n \in DOMAIN fields :
                                                ~isNullish(fieldValue(n))}
                                    |-> fieldValue(name)])
              [] ttype.kind \in {"Scalar", "Enum"} -> ParseLiteral(ttype, valueAST)
              [] OTHER -> Nil

valueFromAST(valueAST, ttype, variables) ==
    IF valueAST = NoNode THEN Nil
    ELSE IF valueAST.Kind = "Variable"
    THEN IF valueAST.Name = NoNode \/ ~variables.present THEN Nil
         ELSE MapGet(variables.m, valueAST.Name.Value)
    ELSE CASE ttype.kind = "NonNull" -> valueFromAST(valueAST, ttype.OfType, variables)
      [] ttype.kind = "List" ->
            IF valueAST.Kind = "ListValue"
            THEN VSlice(LiteralElements(valueAST.Values, ttype.OfType, variables))
            ELSE WrapSingle(valueFromAST(valueAST, ttype.OfType, variables))
      [] ttype.kind = "InputObject" ->
            IF valueAST.Kind # "ObjectValue" THEN Nil
            ELSE LET fieldASTs == FieldASTs(valueAST)
                     fields == Fields(ttype)
                     fieldValue(name) ==
                        IF name \in DOMAIN fieldASTs
                        THEN valueFromAST(fieldASTs[name].Value, fields[name].Type, variables)
                        ELSE fields[name].DefaultValue
                 IN VMap([name \in {n \in DOMAIN fields : ~isNullish(fieldValue(n))}
                            |-> fieldValue(name)])
      [] ttype.kind \in {"Scalar", "Enum"} -> ParseLiteral(ttype, valueAST)
      [] OTHER -> Nil

(***************************************************************************)
(* getVariableValue: the value of one variable definition, or an error.    *)
(* A definition is [Variable, Type, DefaultValue]; the result carries      *)
(* consulted = TRUE when execution reached the call of isValidInputValue.  *)
(***************************************************************************)
VariableDefinition(name, typeAST, defaultValue) ==
    [Kind |-> "VariableDefinition", Variable |-> Variable(name),
     Type |-> typeAST, DefaultValue |-> defaultValue]

NotInputTypeMessage(name, typeAST) ==
    "Variable \"$" \o name \o "\" expected value of type \"" \o PrintType(typeAST)
        \o "\" which cannot be used as an input type."

\* mutant: the nullish case falls through to the invalid-value message
NotProvidedMessage_FallsThrough(name, typeAST) ==
    "Variable \"$" \o name \o "\" got invalid value null."

NotProvidedMessage(name, typeAST) ==
    "Variable \"$" \o name \o "\" of required type \"" \o PrintType(typeAST)
        \o "\" was not provided."

\* mutant: only the first message is reported
MessagesStr_FirstOnly(messages) ==
    IF Len(messages) > 0 THEN "\n" \o messages[1] ELSE ""

\* messagesStr: a newline before the messages joined by newlines
MessagesStr(messages) ==
    IF Len(messages) > 0 THEN "\n" \o Join(messages, "\n") ELSE ""

InvalidValueMessage(name, input, messages) ==
    LET inputStr == IF ~MarshalFails(input) THEN Marshal(input) ELSE ""
    IN "Variable \"$" \o name \o "\" got invalid value " \o inputStr \o "."
        \o MessagesStr(messages)

\* mutant: the default is taken whenever the definition has one
ValidValue_DefaultFirst(definitionAST, ttype, input) ==
    IF definitionAST.DefaultValue # NoNode
    THEN valueFromAST(definitionAST.DefaultValue, ttype, Variables(EmptyMap))
    ELSE coerceValue(ttype, input)

\* the value bound when the validator accepted the input
ValidValue(definitionAST, ttype, input) ==
    IF isNullish(input) /\ definitionAST.DefaultValue # NoNode
    THEN valueFromAST(definitionAST.DefaultValue, ttype, Variables(EmptyMap))
    ELSE coerceValue(ttype, input)

\* mutant: only an absent type is refused
NotAnInputType_AbsentOnly(ttype) == ttype = NoType

\* the guard of the "cannot be used as an input type" error
NotAnInputType(ttype) == ttype = NoType \/ ~IsInputType(ttype)

\* mutant: a nullish input takes the default before the validator is asked
getVariableValue_DefaultBeforeValidation(definitionAST, input) ==
    LET resolved == typeFromAST(definitionAST.Type)
        ttype == resolved.ttype
        name == definitionAST.Variable.Name.Value
    IN IF resolved.err # NoError
       THEN [value |-> Nil, err |-> resolved.err, consulted |-> FALSE]
       ELSE IF NotAnInputType(ttype)
       THEN [value |-> VStr(""), consulted |-> FALSE,
             err |-> NewError(NotInputTypeMessage(name, definitionAST.Type))]
       ELSE IF isNullish(input) /\ definitionAST.DefaultValue # NoNode
       THEN [value |-> valueFromAST(definitionAST.DefaultValue, ttype,
                                    Variables(EmptyMap)),
             err |-> NoError, consulted |-> FALSE]
       ELSE LET valid == isValidInputValue(input, ttype)
            IN IF valid.ok
               THEN [value |-> ValidValue(definitionAST, ttype, input),
                     err |-> NoError, consulted |-> TRUE]
               ELSE IF isNullish(input)
               THEN [value |-> VStr(""), consulted |-> TRUE,
                     err |-> NewError(NotProvidedMessage(name, definitionAST.Type))]
               ELSE [value |-> VStr(""), consulted |-> TRUE,
                     err |-> NewError(InvalidValueMessage(name, input, valid.messages))]

getVariableValue(definitionAST, input) ==
    LET resolved == typeFromAST(definitionAST.Type)
        ttype == resolved.ttype
        name == definitionAST.Variable.Name.Value
    IN IF resolved.err # NoError
       THEN [value |-> Nil, err |-> resolved.err, consulted |-> FALSE]
       ELSE IF NotAnInputType(ttype)
       THEN [value |-> VStr(""), consulted |-> FALSE,
             err |-> NewError(NotInputTypeMessage(name, definitionAST.Type))]
       ELSE LET valid == isValidInputValue(input, ttype)
            IN IF valid.ok
               THEN [value |-> ValidValue(definitionAST, ttype, input),
                     err |-> NoError, consulted |-> TRUE]
               ELSE IF isNullish(input)
               THEN [value |-> VStr(""), consulted |-> TRUE,
                     err |-> NewError(NotProvidedMessage(name, definitionAST.Type))]
               ELSE [value |-> VStr(""), consulted |-> TRUE,
                     err |-> NewError(InvalidValueMessage(name, input, valid.messages))]

(***************************************************************************)
(* getArgumentValues: the map of argument values of a field.               *)
(* An argument definition is [PrivateName, Type, DefaultValue], an         *)
(* argument node is [Name, Value].                                         *)
(***************************************************************************)
Argument(name, ttype, defaultValue) ==
    [PrivateName |-> name, Type |-> ttype, DefaultValue |-> defaultValue]

ArgumentNode(name, value) ==
    [Kind |-> "Argument", Name |-> NameNode(name), Value |-> value]

\* an argument node whose Name is nil
NamelessArgument(value) == [Kind |-> "Argument", Name |-> NoNode, Value |-> value]

\* mutant: a falsy default counts as no default (value || default)
ArgumentValue_TruthyDefault(argDef, argASTMap, variableValues) ==
    LET value == IF argDef.PrivateName \in DOMAIN argASTMap
                 THEN argASTMap[argDef.PrivateName].Value
                 ELSE NoNode
        tmp == valueFromAST(value, argDef.Type, variableValues)
    IN IF isNullish(tmp)
       THEN IF argDef.DefaultValue = VBool(FALSE) THEN Nil ELSE argDef.DefaultValue
       ELSE tmp

\* tmp of one argument definition: the evaluated node value, else the default
ArgumentValue(argDef, argASTMap, variableValues) ==
    LET value == IF argDef.PrivateName \in DOMAIN argASTMap
                 THEN argASTMap[argDef.PrivateName].Value
                 ELSE NoNode
        tmp == valueFromAST(value, argDef.Type, variableValues)
    IN IF isNullish(tmp) THEN argDef.DefaultValue ELSE tmp

\* mutant: the value is stored whether nullish or not
StoreArgument_Always(results, name, tmp) == MapPut(results, name, tmp)

\* results[name] = tmp unless tmp is nullish
StoreArgument(results, name, tmp) ==
    IF ~isNullish(tmp) THEN MapPut(results, name, tmp) ELSE results

getArgumentValues(argDefs, argASTs, variableValues) ==
    LET argASTMap == LastByName(argASTs)
        RECURSIVE loop(_, _)
        loop(j, results) ==
            IF j > Len(argDefs) THEN results
            ELSE LET tmp == ArgumentValue(argDefs[j], argASTMap, variableValues)
                 IN loop(j + 1, StoreArgument(results, argDefs[j].PrivateName, tmp))
    IN loop(1, EmptyMap)

(***************************************************************************)
(* The inputs the entry points are called with.                            *)
(***************************************************************************)
\* marks a key that a map built below leaves out
Absent == [k |-> "absent"]

\* the map of the pairs whose value is not Absent
MakeMap(pairs) ==
    [n \in {p[1] : p \in {q \in pairs : q[2] # Absent}} |->
        (CHOOSE p \in pairs : p[1] = n)[2]]

\* type references of the variable $v
VTypeASTs ==
    {Named("String"), NonNullType(Named("String")),
     ListType(Named("String")), ListType(NonNullType(Named("String"))),
     Named("Complex"), NonNullType(Named("Complex")), Named("Color"),
     Named("Obj"), NonNullType(ListType(Named("Obj"))),
     Named("Ghost"), ListType(Named("Ghost")),
     NonNullType(OtherType)}

\* those of them that are also declared with the default value literal "d"
VDefaultTypeASTs ==
    {Named("String"), NonNullType(Named("String")), ListType(Named("String")),
     Named("Complex"), Named("Obj")}

VDefs ==
    {VariableDefinition("v", t, NoNode) : t \in VTypeASTs}
    \cup {VariableDefinition("v", t, StringValue("d")) : t \in VDefaultTypeASTs}

WDefs ==
    {VariableDefinition("w", Named("String"), StringValue("d")),
     VariableDefinition("w", NonNullType(Named("Obj")), NoNode)}

\* definitions the binder skips: a nil definition, a nil Variable, a nil Name
MalformedDefs ==
    {NoNode,
     [Kind |-> "VariableDefinition", Variable |-> NoNode,
      Type |-> Named("String"), DefaultValue |-> NoNode],
     [Kind |-> "VariableDefinition",
      Variable |-> [Kind |-> "Variable", Name |-> NoNode],
      Type |-> NonNullType(Named("String")), DefaultValue |-> NoNode]}

AllDefs == VDefs \cup WDefs \cup MalformedDefs

\* lists of at most MaxDefs definitions, $v declared at most once
DefLists ==
    {ds \in UNION {[1..n -> AllDefs] : n \in 0..MaxDefs} :
        Cardinality({i \in DOMAIN ds : ds[i] \in VDefs}) <= 1}

\* raw inputs of $v
VInputs ==
    {Absent, Nil, NaN, VStr("x"), VInt(1),
     VSlice(<<VInt(1), VStr("x"), VInt(2)>>), VSlice(<<NaN>>),
     VMap(EmptyMap), VMap(MakeMap({<<"a", VStr("x")>>})),
     VMap(MakeMap({<<"a", VInt(1)>>, <<"c", VBool(TRUE)>>}))}

\* the inputs maps: $v, $w and a key "u" that no definition declares
InputMaps ==
    {MakeMap({<<"v", v>>, <<"w", wu[1]>>, <<"u", wu[2]>>}) :
        v \in VInputs,
        wu \in {<<Absent, Absent>>, <<VInt(1), Absent>>, <<VStr("x"), VInt(1)>>}}

(***************************************************************************)
(* State.                                                                  *)
(***************************************************************************)
VARIABLES
    pc,             \* "idle", the entry point running, or the one that returned
    definitionASTs, \* getVariableValues: the definitions
    inputs,         \* getVariableValues: the raw inputs map
    idx,            \* getVariableValues: position of the range loop
    values,         \* getVariableValues: the map being built and returned
    err,            \* getVariableValues: the error returned
    consulted,      \* positions of the definitions whose input went to the validator
    argDefs,        \* getArgumentValues: the argument definitions
    argASTs,        \* getArgumentValues: the argument nodes
    variableValues, \* getArgumentValues: the bound variables
    results,        \* getArgumentValues: the map returned
    value,          \* isValidInputValue: the value
    ttype,          \* isValidInputValue: the type
    valid,          \* isValidInputValue: the (ok, messages) returned
    order,          \* isValidInputValue: the order its ranges over maps yield
    valueAST,       \* valueFromAST: the value node
    inputTypeAST,   \* typeFromAST: the type reference
    ret             \* what coerceValue, valueFromAST, typeFromAST or isNullish returned

vars == <<pc, definitionASTs, inputs, idx, values, err, consulted,
          argDefs, argASTs, variableValues, results, value, ttype, valid,
          order, valueAST, inputTypeAST, ret>>

binderVars == <<definitionASTs, inputs, idx, values, err, consulted>>
argumentVars == <<argDefs, argASTs, variableValues, results>>
validatorVars == <<value, ttype, valid, order>>
callVars == <<valueAST, inputTypeAST, ret>>

Init ==
    /\ pc = "idle"
    /\ definitionASTs = <<>>
    /\ inputs = EmptyMap
    /\ idx = 1
    /\ values = EmptyMap
    /\ err = NoError
    /\ consulted = <<>>
    /\ argDefs = <<>>
    /\ argASTs = <<>>
    /\ variableValues = NoVariables
    /\ results = EmptyMap
    /\ value = Nil
    /\ ttype = NoType
    /\ valid = [ok |-> TRUE, messages |-> <<>>]
    /\ order = NameOrder
    /\ valueAST = NoNode
    /\ inputTypeAST = NoNode
    /\ ret = Nil

(***************************************************************************)
(* getVariableValues, one action per turn of its loop.                     *)
(***************************************************************************)
\* the guard of the continue statement: nothing to bind in this definition
Malformed(defAST) ==
    IF defAST = NoNode THEN TRUE
    ELSE IF defAST.Variable = NoNode THEN TRUE
    ELSE defAST.Variable.Name = NoNode

\* mutant: the map returned starts as a copy of the inputs
CallGetVariableValues_CopiesInputs ==
    /\ pc = "idle"
    /\ \E ds \in DefLists, in \in InputMaps :
        /\ definitionASTs' = ds
        /\ inputs' = in
        /\ values' = in
    /\ pc' = "getVariableValues"
    /\ idx' = 1
    /\ err' = NoError
    /\ consulted' = <<>>
    /\ UNCHANGED <<argumentVars, validatorVars, callVars>>

\* mutant: the map of the call before is filled again, not a new one
EnterGetVariableValues_KeepsValues(ds, in) ==
    /\ pc = "idle"
    /\ definitionASTs' = ds
    /\ inputs' = in
    /\ pc' = "getVariableValues"
    /\ idx' = 1
    /\ err' = NoError
    /\ consulted' = <<>>
    /\ UNCHANGED <<values, argumentVars, validatorVars, callVars>>

\* entry on the definitions ds and the inputs in: values := {} and the loop
\* starts at the first definition, with no error yet
EnterGetVariableValues(ds, in) ==
    /\ pc = "idle"
    /\ definitionASTs' = ds
    /\ inputs' = in
    /\ pc' = "getVariableValues"
    /\ idx' = 1
    /\ values' = EmptyMap
    /\ err' = NoError
    /\ consulted' = <<>>
    /\ UNCHANGED <<argumentVars, validatorVars, callVars>>

CallGetVariableValues ==
    /\ pc = "idle"
    /\ \E ds \in DefLists, in \in InputMaps : EnterGetVariableValues(ds, in)

\* a malformed definition: continue
SkipDefinition ==
    /\ pc = "getVariableValues"
    /\ idx <= Len(definitionASTs)
    /\ Malformed(definitionASTs[idx])
    /\ idx' = idx + 1
    /\ UNCHANGED <<pc, definitionASTs, inputs, values, err, consulted,
                   argumentVars, validatorVars, callVars>>

\* mutant: a nullish value is not stored, as getArgumentValues does
BindVariable_SkipsNil ==
    /\ pc = "getVariableValues"
    /\ idx <= Len(definitionASTs)
    /\ ~Malformed(definitionASTs[idx])
    /\ LET defAST == definitionASTs[idx]
           varName == defAST.Variable.Name.Value
           got == getVariableValue(defAST, MapGet(inputs, varName))
       IN /\ got.err = NoError
          /\ values' = IF isNullish(got.value) THEN values
                       ELSE MapPut(values, varName, got.value)
          /\ consulted' = IF got.consulted THEN Append(consulted, idx)
                          ELSE consulted
    /\ idx' = idx + 1
    /\ UNCHANGED <<pc, definitionASTs, inputs, err, argumentVars, validatorVars, callVars>>

\* getVariableValue returned a value: values[varName] = varValue
BindVariable ==
    /\ pc = "getVariableValues"
    /\ idx <= Len(definitionASTs)
    /\ ~Malformed(definitionASTs[idx])
    /\ LET defAST == definitionASTs[idx]
           varName == defAST.Variable.Name.Value
           got == getVariableValue(defAST, MapGet(inputs, varName))
       IN /\ got.err = NoError
          /\ values' = MapPut(values, varName, got.value)
          /\ consulted' = IF got.consulted THEN Append(consulted, idx)
                          ELSE consulted
    /\ idx' = idx + 1
    /\ UNCHANGED <<pc, definitionASTs, inputs, err, argumentVars, validatorVars, callVars>>

\* mutant: the error is recorded and the loop carries on
FailVariable_Continues ==
    /\ pc = "getVariableValues"
    /\ idx <= Len(definitionASTs)
    /\ ~Malformed(definitionASTs[idx])
    /\ LET defAST == definitionASTs[idx]
           varName == defAST.Variable.Name.Value
           got == getVariableValue(defAST, MapGet(inputs, varName))
       IN /\ got.err # NoError
          /\ err' = got.err
          /\ consulted' = IF got.consulted THEN Append(consulted, idx)
                          ELSE consulted
    /\ idx' = idx + 1
    /\ UNCHANGED <<pc, definitionASTs, inputs, values, argumentVars, validatorVars, callVars>>

\* getVariableValue returned an error: return values, err
FailVariable ==
    /\ pc = "getVariableValues"
    /\ idx <= Len(definitionASTs)
    /\ ~Malformed(definitionASTs[idx])
    /\ LET defAST == definitionASTs[idx]
           varName == defAST.Variable.Name.Value
           got == getVariableValue(defAST, MapGet(inputs, varName))
       IN /\ got.err # NoError
          /\ err' = got.err
          /\ consulted' = IF got.consulted THEN Append(consulted, idx)
                          ELSE consulted
    /\ pc' = "getVariableValues.return"
    /\ UNCHANGED <<definitionASTs, inputs, idx, values, argumentVars, validatorVars, callVars>>

\* the loop is over: return values, nil
ReturnValues ==
    /\ pc = "getVariableValues"
    /\ idx > Len(definitionASTs)
    /\ pc' = "getVariableValues.return"
    /\ UNCHANGED <<binderVars, argumentVars, validatorVars, callVars>>

(***************************************************************************)
(* getArgumentValues, called with the definitions of a field, the argument *)
(* nodes of the query and the bound variables.                             *)
(***************************************************************************)
\* nothing, or one element of S
Opt(S) == {<<>>} \cup {<<e>> : e \in S}

ArgDefLists ==
    {x \o f \o n \o t :
        x \in Opt({Argument("x", Scalar("String"), Nil),
                   Argument("x", Scalar("String"), VStr("dx"))}),
        f \in Opt({Argument("includeDeprecated", Scalar("Boolean"), VBool(FALSE)),
                   Argument("includeDeprecated", Scalar("Boolean"), VBool(TRUE))}),
        n \in Opt({Argument("name", NewNonNull(Scalar("String")), Nil)}),
        t \in Opt({Argument("tags", NewList(Scalar("String")),
                            VSlice(<<VStr("t")>>))})}

ArgASTLists ==
    {x \o f \o n \o t \o e :
        x \in Opt({ArgumentNode("x", StringValue("s")),
                   ArgumentNode("x", Variable("v")),
                   ArgumentNode("x", IntValue(1))}),
        f \in Opt({ArgumentNode("includeDeprecated", BooleanValue(TRUE)),
                   ArgumentNode("includeDeprecated", BooleanValue(FALSE)),
                   ArgumentNode("includeDeprecated", Variable("f"))}),
        n \in Opt({ArgumentNode("name", StringValue("n"))}),
        t \in Opt({ArgumentNode("tags", ListValue(<<StringValue("s"), IntValue(1)>>)),
                   ArgumentNode("tags", ListValue(<<>>))}),
        e \in Opt({ArgumentNode("zz", StringValue("q")),
                   NamelessArgument(StringValue("q")),
                   ArgumentNode("x", StringValue("s2"))})}

VariableMaps ==
    {NoVariables,
     Variables(MakeMap({<<"v", Nil>>, <<"f", VBool(FALSE)>>})),
     Variables(MakeMap({<<"v", VStr("hello")>>, <<"f", VBool(TRUE)>>}))}

\* one call of getArgumentValues, entry to return
GetArgumentValuesOf(defs, asts, vs) ==
    /\ pc = "idle"
    /\ argDefs' = defs
    /\ argASTs' = asts
    /\ variableValues' = vs
    /\ results' = getArgumentValues(defs, asts, vs)
    /\ pc' = "getArgumentValues.return"
    /\ UNCHANGED <<binderVars, validatorVars, callVars>>

CallGetArgumentValues ==
    /\ pc = "idle"
    /\ \E defs \in ArgDefLists, asts \in ArgASTLists, vs \in VariableMaps :
        GetArgumentValuesOf(defs, asts, vs)

(***************************************************************************)
(* isValidInputValue, called on a runtime value and an input type.         *)
(***************************************************************************)
\* sequences of at most MaxListLen elements of S
Lists(S) == UNION {[1..n -> S] : n \in 0..MaxListLen}

Elements == {Nil, NaN, VStr("x"), VInt(1)}

ComplexValues ==
    {VMap(MakeMap({<<"a", a>>, <<"b", b>>, <<"c", c>>})) :
        a \in {Absent, Nil, VStr("x"), VInt(1)},
        b \in {Absent, VStr("x")} \cup {VSlice(xs) : xs \in Lists({VStr("x"), VInt(1)})},
        c \in {Absent, VBool(TRUE)}}

ValidatorValues ==
    Elements \cup {VBool(TRUE), VStr("RED")}
    \cup {VSlice(xs) : xs \in Lists(Elements)}
    \cup {VSlice(xs) : xs \in Lists({VInt(1), VSlice(<<VStr("x")>>),
                                     VSlice(<<VInt(1), VInt(2)>>)})}
    \cup {VSlice(xs) : xs \in Lists({VStr("x"), VMap(EmptyMap),
                                     VMap(MakeMap({<<"a", VInt(1)>>,
                                                   <<"c", VBool(TRUE)>>}))})}
    \cup ComplexValues

ValidatorTypes ==
    {Scalar("String"), NewNonNull(Scalar("String")), Scalar("Boolean"), Enum("Color"),
     NewList(Scalar("String")), NewList(NewNonNull(Scalar("String"))),
     NewNonNull(NewList(Scalar("String"))),
     NewList(NewList(Scalar("String"))),
     NewNonNull(NewList(NewList(NewNonNull(Scalar("String"))))),
     InputObject("Complex"), NewNonNull(InputObject("Complex")),
     NewList(InputObject("Complex")), Object("Obj")}

\* a pointer to a sequence, as reflect sees it
PointerValues == {VPtr(VSlice(<<VStr("x"), VInt(1)>>))}

\* one call of isValidInputValue, entry to return
IsValidInputValueOf(o, v, t) ==
    /\ pc = "idle"
    /\ value' = v
    /\ ttype' = t
    /\ order' = o
    /\ valid' = isValidInputValueIn(o, v, t)
    /\ pc' = "isValidInputValue.return"
    /\ UNCHANGED <<binderVars, argumentVars, callVars>>

CallIsValidInputValue ==
    /\ pc = "idle"
    /\ \E v \in ValidatorValues \cup PointerValues, t \in ValidatorTypes,
          o \in RangeOrders :
        IsValidInputValueOf(o, v, t)

(***************************************************************************)
(* coerceValue, called on an input type and a runtime value.               *)
(***************************************************************************)
CoerceTypes ==
    {Scalar("String"), Scalar("Boolean"), Enum("Color"),
     NewList(Scalar("String")), NewList(NewNonNull(Scalar("String"))),
     NewNonNull(NewList(Scalar("String"))), NewList(Scalar("Boolean")),
     NewList(Enum("Color")), NewList(NewList(Scalar("String"))),
     InputObject("Complex"), NewNonNull(InputObject("Complex")),
     NewList(InputObject("Complex"))}

\* the zero values of Go, none of them nil
ZeroValues == {VStr(""), VInt(0), VBool(FALSE), VSlice(<<>>), VMap(EmptyMap)}

CoerceValues == ValidatorValues \cup ZeroValues \cup {VBool(FALSE), VStr("GREEN")}

\* one call of coerceValue, entry to return
CoerceValueOf(t, v) ==
    /\ pc = "idle"
    /\ ttype' = t
    /\ value' = v
    /\ ret' = coerceValue(t, v)
    /\ pc' = "coerceValue.return"
    /\ UNCHANGED <<binderVars, argumentVars, valid, order, valueAST, inputTypeAST>>

CallCoerceValue ==
    /\ pc = "idle"
    /\ \E t \in CoerceTypes, v \in CoerceValues : CoerceValueOf(t, v)

(***************************************************************************)
(* valueFromAST, called on a value node, an input type and the variables.  *)
(***************************************************************************)
\* a Variable node whose Name is nil
NamelessVariable == [Kind |-> "Variable", Name |-> NoNode]

\* an ObjectField whose Name is nil
NamelessField(fieldValue) == [Kind |-> "ObjectField", Name |-> NoNode, Value |-> fieldValue]

LeafASTs ==
    {Variable("v"), Variable("u"), StringValue("s"), IntValue(1), EnumValue("RED")}

ObjectASTs ==
    {ObjectValue(a \o b \o e) :
        a \in Opt({ObjectField("a", n) : n \in LeafASTs \cup {NoNode}}),
        b \in Opt({ObjectField("b", StringValue("s")),
                   ObjectField("b", Variable("v")),
                   ObjectField("b", ListValue(<<StringValue("s"), Variable("u")>>))}),
        e \in Opt({ObjectField("c", StringValue("s")), NamelessField(StringValue("s")),
                   NoNode, ObjectField("a", StringValue("s2"))})}

ValueASTs ==
    {NoNode, NamelessVariable, BooleanValue(TRUE)} \cup LeafASTs
    \cup {ListValue(xs) : xs \in Lists({StringValue("s"), Variable("v")})}
    \cup {ListValue(<<NoNode>>), ListValue(<<ListValue(<<StringValue("s")>>)>>)}
    \cup ObjectASTs

LiteralTypes ==
    {NoType, Scalar("String"), NewNonNull(Scalar("String")), Enum("Color"),
     NewNonNull(InputObject("Complex")),
     NewList(Scalar("String")), NewNonNull(NewList(Scalar("String"))),
     NewList(NewList(Scalar("String"))),
     InputObject("Complex"), NewList(InputObject("Complex")), Object("Obj")}

LiteralVariables ==
    {NoVariables, Variables(EmptyMap)}
    \cup {Variables(MakeMap({<<"v", v>>})) :
            v \in {Nil, VStr("hello"), VInt(1), VSlice(<<VStr("x")>>),
                   VMap(MakeMap({<<"c", VBool(TRUE)>>}))}}

\* one call of valueFromAST, entry to return
ValueFromASTOf(a, t, vs) ==
    /\ pc = "idle"
    /\ valueAST' = a
    /\ ttype' = t
    /\ variableValues' = vs
    /\ ret' = valueFromAST(a, t, vs)
    /\ pc' = "valueFromAST.return"
    /\ UNCHANGED <<binderVars, argDefs, argASTs, results, value, valid, order,
                   inputTypeAST>>

CallValueFromAST ==
    /\ pc = "idle"
    /\ \E a \in ValueASTs, t \in LiteralTypes, vs \in LiteralVariables :
        ValueFromASTOf(a, t, vs)

(***************************************************************************)
(* typeFromAST, called on a type reference.                                *)
(***************************************************************************)
\* a Named node whose Name is nil
NamelessNamed == [Kind |-> "Named", Name |-> NoNode]

\* the leaves of a type reference, and what is not a type reference at all
TypeLeaves ==
    {Named("String"), Named("Complex"), Named("Obj"), Named("Ghost"),
     NamelessNamed, OtherType, StringValue("s")}

\* the two wrappers around each of S
Wrapped(S) == {ListType(t) : t \in S} \cup {NonNullType(t) : t \in S}

TypeASTs == TypeLeaves \cup Wrapped(TypeLeaves) \cup Wrapped(Wrapped(TypeLeaves))

CallTypeFromAST ==
    /\ pc = "idle"
    /\ \E t \in TypeASTs :
        /\ inputTypeAST' = t
        /\ ret' = typeFromAST(t)
    /\ pc' = "typeFromAST.return"
    /\ UNCHANGED <<binderVars, argumentVars, validatorVars, valueAST>>

(***************************************************************************)
(* isNullish, called on a runtime value.                                   *)
(***************************************************************************)
NullishValues ==
    Elements \cup ZeroValues \cup {Float, VBool(TRUE), VStr("RED")}
    \cup {VPtr(e) : e \in {Invalid, NaN, Float, VStr(""), VStr("x"), VInt(0),
                          VSlice(<<>>), VPtr(NaN)}}
    \cup {VSlice(xs) : xs \in Lists({Nil, NaN})}
    \cup {VMap(MakeMap({<<"a", a>>})) : a \in {Nil, NaN}}

CallIsNullish ==
    /\ pc = "idle"
    /\ \E v \in NullishValues :
        /\ value' = v
        /\ ret' = isNullish(v)
    /\ pc' = "isNullish.return"
    /\ UNCHANGED <<binderVars, argumentVars, ttype, valid, order, valueAST,
                   inputTypeAST>>

Next ==
    \/ CallGetVariableValues
    \/ SkipDefinition
    \/ BindVariable
    \/ FailVariable
    \/ ReturnValues
    \/ CallGetArgumentValues
    \/ CallIsValidInputValue
    \/ CallCoerceValue
    \/ CallValueFromAST
    \/ CallTypeFromAST
    \/ CallIsNullish

Spec == Init /\ [][Next]_vars

(***************************************************************************)
(* Sequences of calls.  A caller that got its result back calls again:     *)
(* what the calls before left behind is still there, and a later call may  *)
(* be given the map an earlier getVariableValues returned, or a value of   *)
(* the inputs map.                                                         *)
(***************************************************************************)
SeqDefLists ==
    {<<VariableDefinition("v", Named("String"), NoNode)>>,
     <<NoNode, VariableDefinition("w", Named("String"), StringValue("d"))>>,
     <<VariableDefinition("v", NonNullType(Named("String")), NoNode),
       VariableDefinition("w", Named("String"), StringValue("d"))>>}

SeqInputMaps ==
    {EmptyMap,
     MakeMap({<<"v", VStr("x")>>, <<"u", VInt(1)>>}),
     MakeMap({<<"v", VSlice(<<VStr("x"), Nil>>)>>, <<"w", VStr("y")>>})}

SeqCallGetVariableValues ==
    \E ds \in SeqDefLists, in \in SeqInputMaps : EnterGetVariableValues(ds, in)

\* the bound variables are none, or the map getVariableValues returned last
SeqCallGetArgumentValues ==
    \E vs \in {NoVariables, Variables(values)} :
        GetArgumentValuesOf(<<Argument("x", Scalar("String"), VStr("dx"))>>,
                            <<ArgumentNode("x", Variable("v"))>>, vs)

\* the value is the raw input of $v
SeqCallIsValidInputValue ==
    IsValidInputValueOf(NameOrder, MapGet(inputs, "v"), NewList(Scalar("String")))

SeqCallCoerceValue ==
    \E t \in {Scalar("String"), NewList(Scalar("String"))} :
        CoerceValueOf(t, MapGet(inputs, "v"))

SeqCallValueFromAST ==
    \E a \in {Variable("v"), ListValue(<<StringValue("s"), Variable("w")>>)} :
        ValueFromASTOf(a, NewList(Scalar("String")), Variables(values))

ReturnLabels ==
    {"getVariableValues.return", "getArgumentValues.return",
     "isValidInputValue.return", "coerceValue.return", "valueFromAST.return"}

\* the caller has the result and goes on; nothing of the call is undone
Return ==
    /\ pc \in ReturnLabels
    /\ pc' = "idle"
    /\ UNCHANGED <<binderVars, argumentVars, validatorVars, callVars>>

SeqNext ==
    \/ SeqCallGetVariableValues
    \/ SkipDefinition
    \/ BindVariable
    \/ FailVariable
    \/ ReturnValues
    \/ SeqCallGetArgumentValues
    \/ SeqCallIsValidInputValue
    \/ SeqCallCoerceValue
    \/ SeqCallValueFromAST
    \/ Return

SeqSpec == Init /\ [][SeqNext]_vars

(***************************************************************************)
(* Properties of the variable binder.                                      *)
(***************************************************************************)
DefAt(i) == definitionASTs[i]
WellFormed(i) == ~Malformed(DefAt(i))
NameOf(i) == DefAt(i).Variable.Name.Value
InputOf(i) == MapGet(inputs, NameOf(i))
TypeOf(i) == typeFromAST(DefAt(i).Type).ttype

\* definition i is the one whose error getVariableValues returned
Failed(i) == pc = "getVariableValues.return" /\ err # NoError /\ i = idx
\* definition i was bound: the loop went past it
Bound(i) == i < idx
Processed(i) == Bound(i) \/ Failed(i)
\* no later definition bound so far declares the same name
LastOfName(i) == \A j \in (i + 1)..(idx - 1) : WellFormed(j) => NameOf(j) # NameOf(i)

\* the name at the bottom of a type reference, "" under a malformed reference
RECURSIVE InnermostName(_)
InnermostName(typeAST) ==
    CASE typeAST.Kind = "Named" -> typeAST.Name.Value
      [] typeAST.Kind \in {"List", "NonNull"} -> InnermostName(typeAST.Type)
      [] OTHER -> ""

\* the names of the scalars, enums and input objects of the schema
InputTypeNames == {"String", "Boolean", "Color", "Complex"}
\* the names of the object types and a name the schema does not know
NonInputTypeNames == {"Obj", "Ghost"}

DeclaredInputType(i) == InnermostName(DefAt(i).Type) \in InputTypeNames

\* each message on a line of its own
RECURSIVE Lines(_)
Lines(messages) ==
    IF messages = <<>> THEN "" ELSE "\n" \o Head(messages) \o Lines(Tail(messages))

\* the JSON text of a value; a value with a NaN in it has none
JsonText(input) == IF MarshalFails(input) THEN "" ELSE Marshal(input)

\* C1: a variable of a NonNull input type whose input is nullish (absent or
\* null) makes getVariableValues fail with exactly
\*   Variable "$<name>" of required type "<printed type>" was not provided.
\* and it is never bound nor reported as an invalid value.
C1_RequiredNotProvided ==
    \A i \in 1..Len(definitionASTs) :
        (/\ WellFormed(i)
         /\ Processed(i)
         /\ DefAt(i).Type.Kind = "NonNull"
         /\ DeclaredInputType(i)
         /\ isNullish(InputOf(i)))
        => /\ Failed(i)
           /\ err.message = "Variable \"$" \o NameOf(i) \o "\" of required type \""
                            \o PrintType(DefAt(i).Type) \o "\" was not provided."

\* $v: String! with no input: the message of the specification's scenario
C1_Witness ==
    /\ pc = "getVariableValues.return"
    /\ "v" \notin DOMAIN inputs
    /\ err # NoError
    /\ DefAt(idx).Type = NonNullType(Named("String"))
    /\ err = NewError("Variable \"$v\" of required type \"String!\" was not provided.")

\* C2: when the validator accepts the raw input the variable is bound, to the
\* value of the default literal (evaluated with no variables) if the input is
\* nullish and there is a default, else to coerceValue(type, input); a
\* non-nullish input is never replaced by the default.
C2_ValidInputBinding ==
    \A i \in 1..Len(definitionASTs) :
        (/\ WellFormed(i)
         /\ Processed(i)
         /\ DeclaredInputType(i)
         /\ isValidInputValue(InputOf(i), TypeOf(i)).ok)
        => /\ Bound(i)
           /\ LastOfName(i) =>
                values[NameOf(i)] =
                    IF isNullish(InputOf(i)) /\ DefAt(i).DefaultValue # NoNode
                    THEN valueFromAST(DefAt(i).DefaultValue, TypeOf(i),
                                      Variables(EmptyMap))
                    ELSE coerceValue(TypeOf(i), InputOf(i))

\* $v: String = "d" with the input "x" is bound to "x"
C2_Witness ==
    /\ pc = "getVariableValues.return"
    /\ err = NoError
    /\ \E i \in 1..Len(definitionASTs) :
        /\ DefAt(i) = VariableDefinition("v", Named("String"), StringValue("d"))
        /\ MapGet(inputs, "v") = VStr("x")
        /\ MapGet(values, "v") = VStr("x")

\* C3: when the validator rejects a non-nullish input, getVariableValues fails
\* with  Variable "$<name>" got invalid value <JSON of input>.  followed by
\* every message of the validator, each on its own line, in the validator's
\* order, none dropped and none added.
C3_InvalidValueMessages ==
    \A i \in 1..Len(definitionASTs) :
        (/\ WellFormed(i)
         /\ Processed(i)
         /\ DeclaredInputType(i)
         /\ ~isNullish(InputOf(i))
         /\ ~isValidInputValue(InputOf(i), TypeOf(i)).ok)
        => /\ Failed(i)
           /\ err.message = "Variable \"$" \o NameOf(i) \o "\" got invalid value "
                            \o JsonText(InputOf(i)) \o "."
                            \o Lines(isValidInputValue(InputOf(i), TypeOf(i)).messages)

\* $v: Complex with {"a": 1, "c": true}: two messages, one per line
C3_Witness ==
    /\ pc = "getVariableValues.return"
    /\ err # NoError
    /\ DefAt(idx).Type = Named("Complex")
    /\ Len(isValidInputValue(InputOf(idx), TypeOf(idx)).messages) = 2
    /\ err = NewError("Variable \"$v\" got invalid value {\"a\":1,\"c\":true}.\nIn field \"c\": Unknown field.\nIn field \"a\": Expected type \"String\", found \"1\".")

\* C4: a declared type whose innermost type is absent from the schema or is
\* an object type (wrapped in List/NonNull or not) makes getVariableValues
\* fail with  Variable "$<name>" expected value of type "<printed type>" which
\* cannot be used as an input type.  whatever the input, an absent one
\* included, and the validator is not called for that definition.
C4_NotAnInputType ==
    \A i \in 1..Len(definitionASTs) :
        (/\ WellFormed(i)
         /\ Processed(i)
         /\ InnermostName(DefAt(i).Type) \in NonInputTypeNames)
        => /\ Failed(i)
           /\ err.message = "Variable \"$" \o NameOf(i)
                            \o "\" expected value of type \""
                            \o PrintType(DefAt(i).Type)
                            \o "\" which cannot be used as an input type."
           /\ \A c \in 1..Len(consulted) : consulted[c] # i

\* $v: [Obj]! with no input
C4_Witness ==
    /\ pc = "getVariableValues.return"
    /\ "v" \notin DOMAIN inputs
    /\ err # NoError
    /\ DefAt(idx).Type = NonNullType(ListType(Named("Obj")))
    /\ err = NewError("Variable \"$v\" expected value of type \"[Obj]!\" which cannot be used as an input type.")

\* the error getVariableValue returns for definition i alone
ErrorOf(i) == getVariableValue(DefAt(i), InputOf(i)).err
\* the value getVariableValue returns for definition i alone
ValueOf(i) == getVariableValue(DefAt(i), InputOf(i)).value
\* definition i is well-formed and fails on its own
FailsAlone(i) == WellFormed(i) /\ ErrorOf(i) # NoError
\* the last well-formed definition before position n that declares the name
LastBefore(name, n) ==
    CHOOSE i \in 1..(n - 1) :
        /\ WellFormed(i) /\ NameOf(i) = name
        /\ \A j \in (i + 1)..(n - 1) : WellFormed(j) => NameOf(j) # name

\* what getVariableValues returns with an error at position n: the error of
\* definition n and the bindings of the well-formed definitions before n
ReturnsFailureAt(n) ==
    /\ idx = n
    /\ err = ErrorOf(n)
    /\ DOMAIN values = {NameOf(i) : i \in {j \in 1..(n - 1) : WellFormed(j)}}
    /\ \A name \in DOMAIN values : values[name] = ValueOf(LastBefore(name, n))

\* C5: getVariableValues takes the definitions in list order and stops at the
\* first one that fails: it returns the error of that definition and the
\* bindings of the well-formed definitions before it; no later definition is
\* bound or reported, even one that would fail too.  It returns no error
\* only if no definition fails.
C5_StopsAtFirstFailure ==
    pc = "getVariableValues.return" =>
        IF \E i \in 1..Len(definitionASTs) : FailsAlone(i)
        THEN LET first == CHOOSE i \in 1..Len(definitionASTs) :
                            FailsAlone(i) /\ \A j \in 1..(i - 1) : ~FailsAlone(j)
             IN err # NoError /\ ReturnsFailureAt(first)
        ELSE err = NoError

\* the first definition fails and the second would fail with another error
C5_Witness ==
    /\ pc = "getVariableValues.return"
    /\ Len(definitionASTs) = 2
    /\ idx = 1
    /\ FailsAlone(1) /\ FailsAlone(2)
    /\ ErrorOf(1) # ErrorOf(2)
    /\ err = ErrorOf(1)
    /\ values = EmptyMap

\* the names the definitions declare
DeclaredNames ==
    {NameOf(i) : i \in {j \in 1..Len(definitionASTs) : WellFormed(j)}}

\* the inputs map without the keys that name no declared variable
DeclaredInputs == [n \in DOMAIN inputs \cap DeclaredNames |-> inputs[n]]

\* C6: every key of the map getVariableValues builds is the name of a declared
\* variable; a key of the inputs map that names no declared variable is never
\* a key of the result, and the error returned is the one the declared inputs
\* alone produce.
C6_OnlyDeclaredKeys ==
    /\ DOMAIN values \subseteq DeclaredNames
    /\ \A n \in DOMAIN inputs \ DeclaredNames : n \notin DOMAIN values
    /\ pc = "getVariableValues.return" =>
        IF err = NoError
        THEN \A i \in 1..Len(definitionASTs) :
                WellFormed(i) =>
                    getVariableValue(DefAt(i), MapGet(DeclaredInputs, NameOf(i))).err
                        = NoError
        ELSE err = getVariableValue(DefAt(idx),
                                    MapGet(DeclaredInputs, NameOf(idx))).err

\* a successful call whose inputs map has the undeclared key "u"
C6_Witness ==
    /\ pc = "getVariableValues.return"
    /\ err = NoError
    /\ "u" \in DOMAIN inputs
    /\ "u" \notin DeclaredNames
    /\ DOMAIN values # {}

(***************************************************************************)
(* Properties of the argument binder.                                      *)
(***************************************************************************)
\* absent: nil or NaN
Nullish(v) == v \in {Nil, NaN}

\* the positions of the argument nodes of that name
NodesNamed(name) ==
    {j \in 1..Len(argASTs) :
        IF argASTs[j].Name = NoNode THEN FALSE ELSE argASTs[j].Name.Value = name}

\* the value the query supplies for an argument definition: that of the last
\* node of its name, nil when there is none
Supplied(argDef) ==
    LET nodes == NodesNamed(argDef.PrivateName)
    IN IF nodes = {} THEN Nil
       ELSE valueFromAST(argASTs[CHOOSE j \in nodes : \A o \in nodes : o <= j].Value,
                         argDef.Type, variableValues)

ArgumentNames == {argDefs[j].PrivateName : j \in 1..Len(argDefs)}

C8_ArgumentDefaults ==
    pc = "getArgumentValues.return" =>
        \A j \in 1..Len(argDefs) :
            LET d == argDefs[j]
            IN /\ IF Nullish(Supplied(d))
                  THEN ~Nullish(d.DefaultValue) =>
                            MapGet(results, d.PrivateName) = d.DefaultValue
                  ELSE MapGet(results, d.PrivateName) = Supplied(d)
               /\ (/\ d = Argument("includeDeprecated", Scalar("Boolean"), VBool(FALSE))
                   /\ \A n \in NodesNamed("includeDeprecated") :
                        argASTs[n].Value = BooleanValue(FALSE))
                  => MapGet(results, "includeDeprecated") = VBool(FALSE)

\* includeDeprecated: Boolean = false is omitted and bound to false
C8_Witness ==
    /\ pc = "getArgumentValues.return"
    /\ \E j \in 1..Len(argDefs) :
        argDefs[j] = Argument("includeDeprecated", Scalar("Boolean"), VBool(FALSE))
    /\ NodesNamed("includeDeprecated") = {}
    /\ MapGet(results, "includeDeprecated") = VBool(FALSE)

(***************************************************************************)
(* Properties of the validator's messages.                                 *)
(***************************************************************************)
\* the input {"a": 1, "c": true}: "a" is a String field, "c" is not a field
InvalidAndUnknown == VMap(MakeMap({<<"a", VInt(1)>>, <<"c", VBool(TRUE)>>}))

\* getVariableValues failed on a Complex variable given {"a": 1, "c": true}
FailedOnInvalidAndUnknown ==
    /\ pc = "getVariableValues.return"
    /\ err # NoError
    /\ InnermostName(DefAt(idx).Type) = "Complex"
    /\ DefAt(idx).Type.Kind # "List"
    /\ InputOf(idx) = InvalidAndUnknown

\* some occurrence of message first comes before some occurrence of second
Before(messages, first, second) ==
    \E i, j \in 1..Len(messages) :
        i < j /\ messages[i] = first /\ messages[j] = second

\* the validator returned for Complex and a map with an invalid "a" and an
\* unknown "c"
ValidatedInvalidAndUnknown ==
    /\ pc = "isValidInputValue.return"
    /\ GetNamed(ttype) = InputObject("Complex")
    /\ ttype.kind # "List"
    /\ value.k = "map"
    /\ "c" \in DOMAIN value.m
    /\ MapGet(value.m, "a").k \in {"int", "bool", "slice", "map"}

\* C9 as stated: with an invalid value for the field "a" and an unknown field
\* "c", the error of the variable binder lists the messages in lexicographic
\* order of field name, "a" before "c".
C9_LexicographicOrder ==
    /\ FailedOnInvalidAndUnknown =>
        err.message = "Variable \"$" \o NameOf(idx)
            \o "\" got invalid value {\"a\":1,\"c\":true}."
            \o "\nIn field \"a\": Expected type \"String\", found \"1\"."
            \o "\nIn field \"c\": Unknown field."
    /\ ValidatedInvalidAndUnknown =>
        Before(valid.messages,
               "In field \"a\": Expected type \"String\", found \""
                    \o FmtV(value.m["a"]) \o "\".",
               "In field \"c\": Unknown field.")

\* C9 amended: the messages of the unknown provided fields come first, then
\* those of the defined fields, each group in lexicographic order of field
\* name: "In field "c": Unknown field." comes before the message of "a".
C9_UnknownFieldsFirst ==
    /\ FailedOnInvalidAndUnknown =>
        err.message = "Variable \"$" \o NameOf(idx)
            \o "\" got invalid value {\"a\":1,\"c\":true}."
            \o "\nIn field \"c\": Unknown field."
            \o "\nIn field \"a\": Expected type \"String\", found \"1\"."
    /\ ValidatedInvalidAndUnknown =>
        Before(valid.messages,
               "In field \"c\": Unknown field.",
               "In field \"a\": Expected type \"String\", found \""
                    \o FmtV(value.m["a"]) \o "\".")

\* $v: Complex! with {"a": 1, "c": true}
C9_Witness ==
    /\ FailedOnInvalidAndUnknown
    /\ DefAt(idx).Type = NonNullType(Named("Complex"))

\* the messages of the elements from position i on, each prefixed with the
\* position of its element
RECURSIVE ElementMessages(_, _, _)
ElementMessages(items, itemType, i) ==
    IF i > Len(items) THEN <<>>
    ELSE LET messages == isValidInputValue(items[i], itemType).messages
         IN [m \in 1..Len(messages) |->
                "In element #" \o ToString(i) \o ": " \o messages[m]]
            \o ElementMessages(items, itemType, i + 1)

\* C10: the messages of a sequence validated against a List type are those of
\* its elements, each prefixed with "In element #i: " where i is the
\* position (from 1) of the element in the sequence.
C10_ElementPosition ==
    (/\ pc = "isValidInputValue.return"
     /\ ttype.kind = "List"
     /\ value.k = "slice")
    => valid.messages = ElementMessages(value.items, ttype.OfType, 1)

(***************************************************************************)
(* Properties of coerceValue, valueFromAST, typeFromAST and isNullish.     *)
(***************************************************************************)
CoerceReturned == pc = "coerceValue.return"
LiteralReturned == pc = "valueFromAST.return"

\* ret is a sequence of exactly one element
OneElement(v) == v.k = "slice" /\ Len(v.items) = 1

\* the value node is a Variable with a name that the variables map binds
BoundVariable ==
    /\ valueAST.Kind = "Variable"
    /\ valueAST.Name # NoNode
    /\ variableValues.present
    /\ valueAST.Name.Value \in DOMAIN variableValues.m

\* C11 as stated: for a list type, coerceValue of any value that is not a
\* sequence, and valueFromAST of any node that is not a ListValue (a Variable
\* node bound to a value that is not a sequence included), return a sequence
\* of one element.
C11_AlwaysOneElement ==
    /\ (CoerceReturned /\ ttype.kind = "List" /\ value.k # "slice")
        => OneElement(ret)
    /\ (/\ LiteralReturned
        /\ ttype.kind = "List"
        /\ valueAST # NoNode
        /\ valueAST.Kind # "ListValue"
        /\ valueAST.Kind = "Variable" =>
                (BoundVariable /\ MapGet(variableValues.m, valueAST.Name.Value).k # "slice"))
        => OneElement(ret)

\* C11 amended: for a list type, coerceValue of a non-nullish value that is
\* not a sequence returns the one-element sequence of that value coerced to
\* the element type, and nil for a nullish value; valueFromAST of a node that
\* is neither a ListValue nor a Variable returns a one-element sequence, and
\* of a Variable node the bound value as it is, sequence or not.
C11_WrapsNonSequence ==
    /\ (CoerceReturned /\ ttype.kind = "List" /\ value.k # "slice")
        => IF value = Nil \/ value = NaN
           THEN ret = Nil
           ELSE /\ OneElement(ret)
                /\ ret.items[1] = coerceValue(ttype.OfType, value)
    /\ (/\ LiteralReturned
        /\ ttype.kind = "List"
        /\ valueAST # NoNode
        /\ valueAST.Kind \notin {"ListValue", "Variable"})
        => /\ OneElement(ret)
           /\ ret.items[1] = valueFromAST(valueAST, ttype.OfType, variableValues)
    /\ (LiteralReturned /\ ttype.kind = "List" /\ BoundVariable)
        => ret = variableValues.m[valueAST.Name.Value]

\* "x" coerced to [String] is ["x"], and the literal "s" read as [String] is ["s"]
C11_Witness ==
    \/ /\ CoerceReturned
       /\ ttype = NewList(Scalar("String"))
       /\ value = VStr("x")
       /\ ret = VSlice(<<VStr("x")>>)
    \/ /\ LiteralReturned
       /\ ttype = NewList(Scalar("String"))
       /\ valueAST = StringValue("s")
       /\ ret = VSlice(<<VStr("s")>>)

\* the type is Complex, bare or under NonNull
IsComplex(t) == t \in {InputObject("Complex"), NewNonNull(InputObject("Complex"))}

\* the default of field a of Complex
DefaultOfA == VStr("foo")

\* the node of argument or field name among nodes, NoNode when there is none
NodeNamed(nodes, name) ==
    IF name \in DOMAIN LastByName(nodes) THEN LastByName(nodes)[name] ELSE NoNode

\* what the value of a node evaluates to for the String field a
EvaluatedA == valueFromAST(NodeNamed(valueAST.Fields, "a").Value,
                           Scalar("String"), variableValues)

\* C12: in each layer that applies defaults, a field or argument with a
\* default gets the default when its input is absent, the default too when its
\* input is present but nullish (null, or a Variable whose variable is
\* unbound), and its own coerced value when the input is present and that
\* value is not nullish.  The layers: the fields of an input object in
\* coerceValue, the fields of an input-object literal in valueFromAST, the
\* arguments in getArgumentValues.
C12_DefaultLayering ==
    /\ (CoerceReturned /\ IsComplex(ttype) /\ value.k = "map")
        => LET own == coerceValue(Scalar("String"), MapGet(value.m, "a"))
           IN /\ "a" \in DOMAIN ret.m
              /\ ("a" \notin DOMAIN value.m \/ value.m["a"] \in {Nil, NaN})
                    => ret.m["a"] = DefaultOfA
              /\ own # Nil => ret.m["a"] = own
    /\ (LiteralReturned /\ IsComplex(ttype) /\ valueAST.Kind = "ObjectValue")
        => /\ "a" \in DOMAIN ret.m
           /\ (NodeNamed(valueAST.Fields, "a") = NoNode \/ EvaluatedA \in {Nil, NaN})
                => ret.m["a"] = DefaultOfA
           /\ (NodeNamed(valueAST.Fields, "a") # NoNode /\ EvaluatedA \notin {Nil, NaN})
                => ret.m["a"] = EvaluatedA
    /\ pc = "getArgumentValues.return"
        => \A j \in 1..Len(argDefs) :
            LET argDef == argDefs[j]
                own == valueFromAST(NodeNamed(argASTs, argDef.PrivateName).Value,
                                    argDef.Type, variableValues)
            IN argDef.DefaultValue # Nil
                => /\ argDef.PrivateName \in DOMAIN results
                   /\ results[argDef.PrivateName] =
                        IF NodeNamed(argASTs, argDef.PrivateName) = NoNode
                           \/ own \in {Nil, NaN}
                        THEN argDef.DefaultValue
                        ELSE own

\* the values a Scalar or Enum type may be asked to parse
LeafInputs == {VStr("x"), VStr(""), VStr("RED"), VStr("GREEN"), VInt(0), VInt(1),
               VBool(TRUE), VBool(FALSE)}

\* ParseValue of the named type, and of the fields of an input object, gives
\* back what it accepted when asked to parse it again
RECURSIVE ParsesIdempotently(_)
ParsesIdempotently(named) ==
    IF named.kind = "InputObject"
    THEN \A f \in DOMAIN Fields(named) : ParsesIdempotently(GetNamed(Fields(named)[f].Type))
    ELSE \A v \in LeafInputs :
            LET parsed == ParseValue(named, v)
            IN parsed = Nil \/ ParseValue(named, parsed) = parsed

Entry(coerced, defaultValue) ==
    IF coerced # Nil THEN coerced
    ELSE IF defaultValue # Nil THEN defaultValue ELSE Absent

\* C15: coerceValue of a non-nullish value against the input object Complex
\* (a: String = "foo", b: [String]) returns a map that holds, for each of a
\* and b, the coerced input if there is one, else the default if there is
\* one, else no entry; a value that is not a map counts as the empty map.
\* So $v: Complex given {} is bound to exactly {a: "foo"}.
C15_InputObjectCoercion ==
    /\ (CoerceReturned /\ IsComplex(ttype) /\ value \notin {Nil, NaN})
        => LET valueMap == IF value.k = "map" THEN value.m ELSE EmptyMap
           IN ret = VMap(MakeMap({
                <<"a", Entry(coerceValue(Scalar("String"), MapGet(valueMap, "a")),
                             VStr("foo"))>>,
                <<"b", Entry(coerceValue(NewList(Scalar("String")), MapGet(valueMap, "b")),
                             Nil)>>}))
    /\ \A i \in 1..Len(definitionASTs) :
        (/\ WellFormed(i)
         /\ Processed(i)
         /\ DefAt(i).Type \in {Named("Complex"), NonNullType(Named("Complex"))}
         /\ InputOf(i) = VMap(EmptyMap))
        => /\ Bound(i)
           /\ LastOfName(i) =>
                values[NameOf(i)] = VMap(MakeMap({<<"a", VStr("foo")>>}))

\* $v: Complex given {} and bound to {a: "foo"}
C15_Witness ==
    /\ pc = "getVariableValues.return"
    /\ err = NoError
    /\ \E i \in 1..Len(definitionASTs) :
        /\ DefAt(i) = VariableDefinition("v", Named("Complex"), NoNode)
        /\ MapGet(inputs, "v") = VMap(EmptyMap)
        /\ MapGet(values, "v") = VMap(MakeMap({<<"a", VStr("foo")>>}))

NullishReturned == pc = "isNullish.return"

TypeResolved == pc = "typeFromAST.return"

\* the type reference is made of List and NonNull nodes around a Named node
RECURSIVE WellShaped(_)
WellShaped(typeAST) ==
    CASE typeAST.Kind = "Named" -> TRUE
      [] typeAST.Kind \in {"List", "NonNull"} -> WellShaped(typeAST.Type)
      [] OTHER -> FALSE

\* the wrappers of a well-shaped type reference around what the schema has
\* under the name of its leaf, NoType when it has nothing
RECURSIVE SameNesting(_)
SameNesting(typeAST) ==
    CASE typeAST.Kind = "List" -> NewList(SameNesting(typeAST.Type))
      [] typeAST.Kind = "NonNull" -> NewNonNull(SameNesting(typeAST.Type))
      [] typeAST.Kind = "Named" ->
            IF typeAST.Name = NoNode THEN SchemaType("")
            ELSE SchemaType(typeAST.Name.Value)

\* C17: typeFromAST of a well-shaped type reference returns, without error,
\* the same nesting of List and NonNull around schema.Type(name), absent or
\* not; of any other reference, whatever the depth of the foreign node, it
\* returns no type and the error "Must be a named type.", and a variable
\* definition with such a reference makes getVariableValues return that error.
C17_SameNestingOrError ==
    /\ TypeResolved =>
        IF WellShaped(inputTypeAST)
        THEN ret = [ttype |-> SameNesting(inputTypeAST), err |-> NoError]
        ELSE ret = [ttype |-> NoType, err |-> NewError("Must be a named type.")]
    /\ \A i \in 1..Len(definitionASTs) :
        (WellFormed(i) /\ Processed(i) /\ ~WellShaped(DefAt(i).Type))
        => /\ Failed(i)
           /\ err = NewError("Must be a named type.")

\* a foreign node under a NonNull under a List
C17_Witness ==
    /\ TypeResolved
    /\ inputTypeAST = ListType(NonNullType(OtherType))
    /\ ret.ttype = NoType
    /\ ret.err = NewError("Must be a named type.")

(***************************************************************************)
(* Properties of isValidInputValue.                                        *)
(***************************************************************************)
Validated == pc = "isValidInputValue.return"

\* C14: the ok flag and the ordered messages of isValidInputValue are the same
\* whatever order the ranges over the field map of the schema and over the
\* input map yield their keys in: what was returned under the order of this
\* call is what every other order returns.
C14_OrderIndependent ==
    Validated => \A o \in RangeOrders : isValidInputValueIn(o, value, ttype) = valid

\* {a: 1, b: [1], c: true} against Complex, the ranges yielding c, b, a: the
\* unknown c, then a, then b
C14_Witness ==
    /\ Validated
    /\ ttype = InputObject("Complex")
    /\ order = <<"c", "b", "a">>
    /\ value.k = "map"
    /\ DOMAIN value.m = {"a", "b", "c"}
    /\ valid.ok = FALSE
    /\ valid.messages =
        <<"In field \"c\": Unknown field.",
          "In field \"a\": Expected type \"String\", found \"1\".",
          "In field \"b\": In element #1: Expected type \"String\", found \"1\".">>

\* C18: against NonNull(inner) a nullish value fails with exactly one
\* message, Expected "<name of inner>!", found null. when inner is a named
\* type and Expected non-null value, found null. when inner is a List; a
\* non-nullish value gets what validating it against inner gives.
C18_NonNullMessage ==
    (Validated /\ ttype.kind = "NonNull")
    => IF value \in {Nil, NaN}
       THEN valid =
            [ok |-> FALSE,
             messages |->
                <<IF ttype.OfType.kind = "List"
                  THEN "Expected non-null value, found null."
                  ELSE "Expected \"" \o ttype.OfType.name \o "!\", found null.">>]
       ELSE valid = isValidInputValueIn(order, value, ttype.OfType)

\* nil against [String]! and the message without a name
C18_Witness ==
    /\ Validated
    /\ ttype = NewNonNull(NewList(Scalar("String")))
    /\ value = Nil
    /\ valid = [ok |-> FALSE, messages |-> <<"Expected non-null value, found null.">>]

\* ok goes with an empty list of messages in the call on v and t and in every
\* call nested in it
RECURSIVE OkIffNoMessages(_, _, _)
OkIffNoMessages(o, v, t) ==
    LET r == isValidInputValueIn(o, v, t)
        seen == IF v.k = "ptr" THEN v.elem ELSE v
    IN /\ r.ok <=> r.messages = <<>>
       /\ v \in {Nil, NaN} =>
            IF t.kind = "NonNull" THEN ~r.ok ELSE r = [ok |-> TRUE, messages |-> <<>>]
       /\ v \notin {Nil, NaN} =>
            CASE t.kind = "NonNull" -> OkIffNoMessages(o, v, t.OfType)
              [] t.kind = "List" ->
                    IF seen.k = "slice"
                    THEN \A i \in 1..Len(seen.items) :
                            OkIffNoMessages(o, seen.items[i], t.OfType)
                    ELSE OkIffNoMessages(o, v, t.OfType)
              [] t.kind = "InputObject" /\ v.k = "map" ->
                    \A f \in DOMAIN Fields(t) :
                        OkIffNoMessages(o, MapGet(v.m, f), Fields(t)[f].Type)
              [] OTHER -> TRUE

\* C19: isValidInputValue returns ok = true exactly when it returns no
\* message, for the value and the type it is called on and for every element
\* and field it descends into; a nullish value against a type that is not
\* NonNull is valid without a message.  So the validator has at least one
\* message whenever getVariableValues fails on a non-nullish input of an
\* input type, which is when it reports "got invalid value".
C19_OkIffNoMessages ==
    /\ Validated =>
        /\ valid.ok <=> valid.messages = <<>>
        /\ OkIffNoMessages(order, value, ttype)
        /\ (value \in {Nil, NaN} /\ ttype.kind # "NonNull")
            => valid = [ok |-> TRUE, messages |-> <<>>]
    /\ \A i \in 1..Len(definitionASTs) :
        (/\ WellFormed(i)
         /\ Failed(i)
         /\ DeclaredInputType(i)
         /\ InputOf(i) \notin {Nil, NaN})
        => /\ isValidInputValue(InputOf(i), TypeOf(i)).messages # <<>>
           /\ err.message #
                "Variable \"$" \o NameOf(i) \o "\" got invalid value "
                    \o JsonText(InputOf(i)) \o "."

\* [{}, {a: 1, c: true}] against [Complex]: the first element is valid, the
\* second has two messages
C19_Witness ==
    /\ Validated
    /\ ttype = NewList(InputObject("Complex"))
    /\ value = VSlice(<<VMap(EmptyMap),
                        VMap(MakeMap({<<"a", VInt(1)>>, <<"c", VBool(TRUE)>>}))>>)
    /\ ~valid.ok
    /\ Len(valid.messages) = 2

\* C20: valueFromAST of a Variable node returns variables[name] as it is,
\* whatever the type (no unwrapping of NonNull, no wrapping for a List, no
\* default, no check against the type), and nil when the node has no name, the
\* variables map is nil or the map has no entry of that name: the kind of the
\* node is looked at before the type.
C20_VariableUnchanged ==
    (LiteralReturned /\ valueAST.Kind = "Variable")
    => ret = IF BoundVariable THEN variableValues.m[valueAST.Name.Value] ELSE Nil

\* $v bound to 1 and read as [String]! is 1
C20_Witness ==
    /\ LiteralReturned
    /\ valueAST = Variable("v")
    /\ ttype = NewNonNull(NewList(Scalar("String")))
    /\ variableValues = Variables(MakeMap({<<"v", VInt(1)>>}))
    /\ ret = VInt(1)

\* the entry of a field of an input-object literal: what the node of that name
\* evaluates to when the literal has one, else the default of the field;
\* nothing when that value is absent
LiteralEntry(name, fieldType, defaultValue) ==
    LET node == NodeNamed(valueAST.Fields, name)
        evaluated == valueFromAST(node.Value, fieldType, variableValues)
    IN IF node # NoNode
       THEN IF evaluated \in {Nil, NaN} THEN Absent ELSE evaluated
       ELSE IF defaultValue = Nil THEN Absent ELSE defaultValue

\* C21: valueFromAST against the input object Complex (a: String = "foo",
\* b: [String]) returns nil for a node that is neither an ObjectValue nor a
\* Variable; for an ObjectValue it returns a map that holds, for each of a and
\* b, the evaluated node of that name when the literal has one, else the
\* default of the field, and no entry when that value is absent; a field of
\* the literal that Complex does not have leaves no entry.
C21_InputObjectLiteral ==
    (LiteralReturned /\ IsComplex(ttype) /\ valueAST # NoNode
        /\ valueAST.Kind # "Variable")
    => IF valueAST.Kind # "ObjectValue"
       THEN ret = Nil
       ELSE /\ ret = VMap(MakeMap({
                    <<"a", LiteralEntry("a", Scalar("String"), VStr("foo"))>>,
                    <<"b", LiteralEntry("b", NewList(Scalar("String")), Nil)>>}))
            /\ DOMAIN ret.m \subseteq {"a", "b"}

\* {a: "s", a: "s2"} read as Complex is {a: "s2"}: the later field of a name wins
C21_Witness ==
    /\ LiteralReturned
    /\ ttype = InputObject("Complex")
    /\ valueAST = ObjectValue(<<ObjectField("a", StringValue("s")),
                                ObjectField("a", StringValue("s2"))>>)
    /\ ret = VMap(MakeMap({<<"a", VStr("s2")>>}))

(***************************************************************************)
(* Properties that relate the validator, the coercer and the binder.       *)
(***************************************************************************)
\* getVariableValues returned without an error
Succeeded == pc = "getVariableValues.return" /\ err = NoError

\* C23: the validator and the coercer agree on NonNull types: a value that
\* isValidInputValue accepts for NonNull(T), T an input type, is coerced to a
\* value that is not absent; so when getVariableValues succeeds, every
\* variable declared with a NonNull type is bound to a value that is not
\* absent.
C23_NonNullAgreement ==
    /\ (Validated /\ ttype.kind = "NonNull" /\ IsInputType(ttype) /\ valid.ok)
        => coerceValue(ttype, value) \notin {Nil, NaN}
    /\ Succeeded =>
        \A i \in 1..Len(definitionASTs) :
            (WellFormed(i) /\ DefAt(i).Type.Kind = "NonNull" /\ LastOfName(i))
            => /\ NameOf(i) \in DOMAIN values
               /\ values[NameOf(i)] \notin {Nil, NaN}

\* $v: Complex! given {} is bound to {a: "foo"}
C23_Witness ==
    /\ Succeeded
    /\ \E i \in 1..Len(definitionASTs) :
        /\ DefAt(i) = VariableDefinition("v", NonNullType(Named("Complex")), NoNode)
        /\ MapGet(inputs, "v") = VMap(EmptyMap)
        /\ MapGet(values, "v") = VMap(MakeMap({<<"a", VStr("foo")>>}))

\* definition i declares a nullable input type, has no default, and its
\* variable has no input or a nil one
UnsetNullable(i) ==
    /\ WellFormed(i)
    /\ DeclaredInputType(i)
    /\ DefAt(i).Type.Kind # "NonNull"
    /\ DefAt(i).DefaultValue = NoNode
    /\ InputOf(i) = Nil

\* C24: when getVariableValues succeeds, the map it returns has a key for
\* every well-formed definition and no other; a nullable variable without
\* input and without default has its key too, bound to nil, whereas
\* getArgumentValues leaves out the key of such an argument; a definition
\* without a variable or without a name adds no key and raises no error.
C24_KeyForEveryVariable ==
    /\ Succeeded =>
        /\ DOMAIN values = {NameOf(i) : i \in {j \in 1..Len(definitionASTs) : WellFormed(j)}}
        /\ \A i \in 1..Len(definitionASTs) :
            (UnsetNullable(i) /\ LastOfName(i))
            => (NameOf(i) \in DOMAIN values /\ values[NameOf(i)] = Nil)
    /\ \A i \in 1..Len(definitionASTs) :
        (Processed(i) /\ ~WellFormed(i)) => ~Failed(i)
    /\ pc = "getArgumentValues.return" =>
        \A j \in 1..Len(argDefs) :
            (/\ argDefs[j].DefaultValue = Nil
             /\ NodeNamed(argASTs, argDefs[j].PrivateName) = NoNode)
            => argDefs[j].PrivateName \notin DOMAIN results

\* a malformed definition, then $v: String with no input: the map returned is
\* {v: nil}
C24_Witness ==
    /\ Succeeded
    /\ Len(definitionASTs) = 2
    /\ ~WellFormed(1)
    /\ DefAt(2) = VariableDefinition("v", Named("String"), NoNode)
    /\ "v" \notin DOMAIN inputs
    /\ DOMAIN values = {"v"}
    /\ values["v"] = Nil

\* C25: a variable of a NonNull input type whose input is nullish fails with
\*   Variable "$<name>" of required type "<printed type>" was not provided.
\* even when its definition has a default literal: the validator is asked
\* first and refuses, so the default is never evaluated and never bound.
C25_DefaultNotForNonNull ==
    \A i \in 1..Len(definitionASTs) :
        (/\ WellFormed(i)
         /\ Processed(i)
         /\ DefAt(i).Type.Kind = "NonNull"
         /\ DeclaredInputType(i)
         /\ DefAt(i).DefaultValue # NoNode
         /\ InputOf(i) \in {Nil, NaN})
        => /\ Failed(i)
           /\ err.message = "Variable \"$" \o NameOf(i) \o "\" of required type \""
                                \o PrintType(DefAt(i).Type) \o "\" was not provided."
           /\ consulted # <<>> /\ consulted[Len(consulted)] = i
           /\ (\A j \in 1..(i - 1) : WellFormed(j) => NameOf(j) # NameOf(i))
                => NameOf(i) \notin DOMAIN values

\* $v: String! = "d" with no input
C25_Witness ==
    /\ pc = "getVariableValues.return"
    /\ err = NewError("Variable \"$v\" of required type \"String!\" was not provided.")
    /\ idx <= Len(definitionASTs)
    /\ DefAt(idx) = VariableDefinition("v", NonNullType(Named("String")), StringValue("d"))
    /\ "v" \notin DOMAIN inputs
    /\ "v" \notin DOMAIN values

\* the type is a List, bare or under NonNull
IsList(t) == t.kind = "List" \/ (t.kind = "NonNull" /\ t.OfType.kind = "List")
\* the element type of such a type
ItemType(t) == IF t.kind = "List" THEN t.OfType ELSE t.OfType.OfType

\* C26: against a List type, coerceValue of a sequence of n elements and
\* valueFromAST of a ListValue of n items return a sequence of n elements,
\* the i-th being the i-th input coerced or evaluated, nil where that fails;
\* nothing is dropped or moved.  Such a sequence is not nullish, so an
\* argument given a list literal never takes its default.
C26_LengthAndOrder ==
    /\ (CoerceReturned /\ IsList(ttype) /\ value.k = "slice")
        => /\ ret.k = "slice"
           /\ Len(ret.items) = Len(value.items)
           /\ \A i \in 1..Len(value.items) :
                ret.items[i] = coerceValue(ItemType(ttype), value.items[i])
    /\ (LiteralReturned /\ IsList(ttype) /\ valueAST.Kind = "ListValue")
        => /\ ret.k = "slice"
           /\ Len(ret.items) = Len(valueAST.Values)
           /\ \A i \in 1..Len(valueAST.Values) :
                ret.items[i] = valueFromAST(valueAST.Values[i], ItemType(ttype),
                                            variableValues)
    /\ pc = "getArgumentValues.return" =>
        \A j \in 1..Len(argDefs) :
            LET node == NodeNamed(argASTs, argDefs[j].PrivateName)
            IN (IsList(argDefs[j].Type) /\ node # NoNode /\ node.Value.Kind = "ListValue")
               => /\ argDefs[j].PrivateName \in DOMAIN results
                  /\ results[argDefs[j].PrivateName].k = "slice"
                  /\ Len(results[argDefs[j].PrivateName].items) = Len(node.Value.Values)
                  /\ results[argDefs[j].PrivateName] # argDefs[j].DefaultValue

\* tags: ["s", 1] for tags: [String] = ["t"] is ["s", nil], not the default
C26_Witness ==
    /\ pc = "getArgumentValues.return"
    /\ \E j \in 1..Len(argDefs) :
        /\ argDefs[j] = Argument("tags", NewList(Scalar("String")), VSlice(<<VStr("t")>>))
        /\ NodeNamed(argASTs, "tags") =
                ArgumentNode("tags", ListValue(<<StringValue("s"), IntValue(1)>>))
    /\ MapGet(results, "tags") = VSlice(<<VStr("s"), Nil>>)

(***************************************************************************)
(* Properties of sequences of calls.                                       *)
(***************************************************************************)
\* the arguments the calls were given
arguments ==
    <<definitionASTs, inputs, argDefs, argASTs, variableValues, value, ttype,
      order, valueAST>>

\* a step of a call, or the return to the caller, assigns no argument of
\* any call, and a step of getVariableValues assigns nothing of another call
ArgumentsKept ==
    /\ pc # "idle" => UNCHANGED arguments
    /\ pc = "getVariableValues" =>
            UNCHANGED <<argumentVars, validatorVars, callVars>>

\* a call assigns its own arguments and results only; the map it is given
\* as bound variables and the inputs map it reads a value of stay as they are
OthersKept ==
    /\ pc' = "getVariableValues" =>
            UNCHANGED <<argumentVars, validatorVars, callVars>>
    /\ pc' = "getArgumentValues.return" =>
            UNCHANGED <<binderVars, validatorVars, callVars>>
    /\ pc' = "isValidInputValue.return" =>
            UNCHANGED <<binderVars, argumentVars, callVars>>
    /\ pc' = "coerceValue.return" =>
            UNCHANGED <<binderVars, argumentVars, valid, order>>
    /\ pc' = "valueFromAST.return" =>
            UNCHANGED <<binderVars, argDefs, argASTs, results, value, valid, order>>

\* what getVariableValues returns without an error: the bindings of all the
\* well-formed definitions
ReturnsBindings ==
    /\ idx = Len(definitionASTs) + 1
    /\ DOMAIN values =
            {NameOf(i) : i \in {j \in 1..Len(definitionASTs) : WellFormed(j)}}
    /\ \A name \in DOMAIN values :
            values[name] = ValueOf(LastBefore(name, Len(definitionASTs) + 1))

\* what a call returned is what the call returns on its arguments alone
ResultOfArguments ==
    /\ pc = "getVariableValues.return" =>
            IF err = NoError THEN ReturnsBindings ELSE ReturnsFailureAt(idx)
    /\ pc = "getArgumentValues.return" =>
            results = getArgumentValues(argDefs, argASTs, variableValues)
    /\ pc = "isValidInputValue.return" =>
            valid = isValidInputValueIn(order, value, ttype)
    /\ pc = "coerceValue.return" => ret = coerceValue(ttype, value)
    /\ pc = "valueFromAST.return" =>
            ret = valueFromAST(valueAST, ttype, variableValues)

\* a call begins at the caller: it keeps what is not its own, and
\* getVariableValues begins with a new, empty map
CallKeepsOthers ==
    pc = "idle" =>
        /\ OthersKept
        /\ pc' = "getVariableValues" => values' = EmptyMap

====
